---- MODULE Spec2Model ----
(***************************************************************************)
(* A model of the Vamana graph index of diskann-impl (graph.rs):           *)
(* VamanaIndex with insert_node, remove_node, beam_search,                 *)
(* beam_search_with_buffer, robust_prune, find_medoid, the Search trait    *)
(* methods and IndexBuilder::build.                                        *)
(*                                                                         *)
(* Vectors are sequences of small integers and the distance functor is     *)
(* ManhattanDistance, so every f32 distance of the model is an exact       *)
(* integer (for one-dimensional vectors it equals EuclideanDistance).      *)
(* The f32 values NaN and the infinities are separate values with the      *)
(* arithmetic and the comparisons IEEE 754 gives them.                     *)
(* alpha is a ratio: 1.0, or 6/5 for the default 1.2.                      *)
(***************************************************************************)
EXTENDS Integers, Sequences, FiniteSets, TLC

\* ---------------------------------------------------------------- bounds
MaxId == 2
MaxCoord == 1
MaxR == 2
MaxL == 2
MaxK == 2
MaxBuild == 3
MaxBeam == 3
MaxOps == 5
MaxDups == 1
MaxDim == 2
MaxWide == 5
MaxCand == 3
MaxSlots == 2
MaxHops == 3

Ids == 0..MaxId
Vectors == {<<x>> : x \in 0..MaxCoord}
Alphas == {<<1, 1>>, <<6, 5>>}

\* Vectors longer than the one-dimensional vectors of the index.
WrongLengthVectors == {[i \in 1..d |-> 0] : d \in 2..MaxDim}
Configs == [R : 1..MaxR, L : 1..MaxL, alpha : Alphas]

\* f32::INFINITY: larger than every finite distance of the model.
Inf == 999

\* f32::NEG_INFINITY
NegInf == -Inf

\* f32::NAN: a value apart from every coordinate and every distance.
NaN == -1

\* One-dimensional vectors with a non-finite component.
NonFiniteVectors == {<<NaN>>, <<Inf>>, <<NegInf>>}

VARIABLES nodes, start_node, config, last, dups, ops

vars == <<nodes, start_node, config, last, dups, ops>>

\* ------------------------------------------------------------- utilities
Abs(x) == IF x < 0 THEN -x ELSE x

Min(a, b) == IF a < b THEN a ELSE b

Max(a, b) == IF a < b THEN b ELSE a

Range(s) == {s[i] : i \in 1..Len(s)}

\* f32 a < b and a > b: false when an operand is NaN.
Lt(a, b) == a # NaN /\ b # NaN /\ a < b

Gt(a, b) == Lt(b, a)

\* (x - y).abs() in f32: NaN from a NaN operand and from the difference of
\* equal infinities.
AbsDiff(x, y) ==
  IF x = NaN \/ y = NaN THEN NaN
  ELSE IF x \in {Inf, NegInf} \/ y \in {Inf, NegInf}
  THEN IF x = y THEN NaN ELSE Inf
  ELSE Abs(x - y)

\* The f32 sum of two distances.
Plus(a, b) ==
  IF a = NaN \/ b = NaN THEN NaN
  ELSE IF a = Inf \/ b = Inf THEN Inf
  ELSE a + b

RECURSIVE SumAbs(_, _, _)
SumAbs(a, b, i) ==
  IF i > Len(a) THEN 0 ELSE Plus(AbsDiff(a[i], b[i]), SumAbs(a, b, i + 1))

\* Distance<f32> for ManhattanDistance.
Distance(a, b) == IF Len(a) # Len(b) THEN Inf ELSE SumAbs(a, b, 1)

\* candidate.distance < alpha * dist_to_best, in f32 (alpha * INFINITY = INFINITY).
LessThanScaled(d, alpha, dist) ==
  IF d = NaN \/ dist = NaN THEN FALSE
  ELSE IF dist = Inf THEN d # Inf
  ELSE IF d = Inf THEN FALSE
  ELSE d * alpha[2] < alpha[1] * dist

\* GraphNode::new
GraphNode(vector) == [vector |-> vector, neighbors |-> <<>>]

Candidate(id, distance) == [id |-> id, distance |-> distance]

\* Candidate::cmp(a, b) = Ordering::Greater: the reversed partial_cmp of the
\* distances, and the ids when that is Equal or None (a NaN distance).
CmpGreater(a, b) ==
  \/ Gt(b.distance, a.distance)
  \/ ~Gt(b.distance, a.distance) /\ ~Lt(b.distance, a.distance) /\ a.id > b.id

\* BinaryHeap::peek (and the element BinaryHeap::pop removes): the greatest
\* element under Candidate::cmp. A heap is the set of candidates it holds;
\* no id is pushed twice, so the order on it is strict. (With a NaN distance
\* Candidate::cmp can be cyclic on three candidates; the specification with
\* non-finite vectors holds at most three nodes, so that the search of an
\* insertion holds at most two candidates.)
HeapPeek(h) == CHOOSE c \in h : \A d \in h : d = c \/ CmpGreater(c, d)

HeapPop(h) == h \ {HeapPeek(h)}

\* BinaryHeap::into_sorted_vec: ascending under Candidate::cmp.
RECURSIVE IntoSortedVec(_)
IntoSortedVec(h) ==
  IF h = {} THEN <<>>
  ELSE LET top == HeapPeek(h) IN Append(IntoSortedVec(h \ {top}), top)

\* Vec::reverse
RECURSIVE Reverse(_)
Reverse(s) == IF s = <<>> THEN <<>> ELSE Append(Reverse(Tail(s)), Head(s))

\* Vec::truncate
Truncate(s, k) == SubSeq(s, 1, Min(k, Len(s)))

\* The orders in which a HashMap with key set S may be iterated.
RECURSIVE KeyOrders(_)
KeyOrders(S) ==
  IF S = {} THEN {<<>>}
  ELSE UNION {{<<x>> \o p : p \in KeyOrders(S \ {x})} : x \in S}

\* The keys of S in ascending order.
RECURSIVE Ascending(_)
Ascending(S) ==
  IF S = {} THEN <<>>
  ELSE LET x == CHOOSE y \in S : \A z \in S : y <= z
       IN <<x>> \o Ascending(S \ {x})

\* Iteration orders that stand for all of KeyOrders(S) in insert_node,
\* remove_node and the searches. These read an order only through
\* keys().next(), its first key, and through find_medoid, which returns the
\* first key of minimum total distance it meets (the first key when no total
\* is finite). Whatever first key and medoid some order gives, the order
\* with that first key, then that medoid, then the other keys gives too.
IterationOrders(S) ==
  IF S = {} THEN {<<>>}
  ELSE UNION {
         IF S = {x} THEN {<<x>>}
         ELSE {<<x, y>> \o Ascending(S \ {x, y}) : y \in S \ {x}} :
         x \in S}

\* ----------------------------------------------------------- beam search
\* Option::unwrap
Unwrap(opt) == CHOOSE x \in opt : TRUE

\* SearchBuffer::new: three empty vectors.
NewBuffer == [candidates |-> <<>>, distances |-> <<>>, visited |-> <<>>]

\* The buffers a caller can pass: up to MaxSlots visited flags of any value,
\* with or without left-over candidates and distances.
SearchBuffers ==
  {[candidates |-> c, distances |-> c, visited |-> v] :
     c \in {<<>>, <<0>>},
     v \in UNION {[1..n -> BOOLEAN] : n \in 0..MaxSlots}}

\* A buffer as an earlier search can leave it: every flag set, candidates
\* and distances left over.
DirtyBuffer ==
  [candidates |-> <<0>>, distances |-> <<0>>,
   visited |-> [i \in 1..MaxSlots |-> TRUE]]

\* SearchBuffer::clear
clear(buffer) == [candidates |-> <<>>, distances |-> <<>>, visited |-> <<>>]

\* Vec::resize(new_len, value): truncate, or pad with value.
Resize(s, new_len, value) ==
  [i \in 1..new_len |-> IF i <= Len(s) THEN s[i] ELSE value]

\* SearchBuffer::resize_for_nodes: resize the flags, then fill them with false.
resize_for_nodes(buffer, num_nodes) ==
  LET resized == Resize(buffer.visited, num_nodes, FALSE)
  IN [buffer EXCEPT !.visited = [i \in 1..Len(resized) |-> FALSE]]

\* A variant of PrepareBuffer that resizes the flags and resets nothing; C26
\* must tell it from PrepareBuffer.
PrepareBufferKeep(buffer, num_nodes) ==
  [buffer EXCEPT !.visited = Resize(buffer.visited, num_nodes, FALSE)]

\* "Clear and prepare buffers"
PrepareBuffer(buffer, num_nodes) == resize_for_nodes(clear(buffer), num_nodes)

\* The ids whose flag is set in a buffer (slot i holds the flag of id i).
Flagged(buffer) ==
  {i - 1 : i \in {j \in 1..Len(buffer.visited) : buffer.visited[j]}}

\* The ids already marked when the walk starts: none in the HashSet of
\* beam_search (bitmap is None), those flagged in the prepared buffer of
\* beam_search_with_buffer (bitmap is Some(buffer)).
MarkedAtEntry(bitmap) ==
  IF bitmap = {} THEN {} ELSE Flagged(Unwrap(bitmap))

\* Whether a neighbor id passes the visited test: the HashSet of beam_search,
\* or the bitmap of beam_search_with_buffer, which has buffer.visited.len()
\* slots.
Unvisited(bitmap, visited, id) ==
  IF bitmap # {}
  THEN id < Len(Unwrap(bitmap).visited) /\ id \notin visited
  ELSE id \notin visited

\* A variant of MarkStart that leaves the start node unmarked; C29 must tell
\* it from MarkStart.
MarkStartSkipped(bitmap, id) == {}

\* Marking the start node: the bitmap may have no slot for it.
MarkStart(bitmap, id) ==
  IF bitmap # {} /\ ~(id < Len(Unwrap(bitmap).visited)) THEN {} ELSE {id}

\* A variant of Evaluate that makes a candidate of every id, resolved or not;
\* C4 must tell it from Evaluate.
EvaluateUnchecked(ns, query, id) ==
  IF id \in DOMAIN ns THEN {Candidate(id, Distance(query, ns[id].vector))}
  ELSE {Candidate(id, Inf)}

\* Evaluation of one neighbor: a candidate when the id resolves to a node.
Evaluate(ns, query, id) ==
  IF id \in DOMAIN ns THEN {Candidate(id, Distance(query, ns[id].vector))}
  ELSE {}

\* A variant of KeepWithinBeam that pops as soon as the heap holds the beam
\* width; C25 must tell it from KeepWithinBeam.
KeepWithinBeamTight(best, eff) ==
  IF Cardinality(best) >= eff THEN HeapPop(best) ELSE best

\* "Keep only the best candidates within beam width"
KeepWithinBeam(best, eff) ==
  IF Cardinality(best) > eff THEN HeapPop(best) ELSE best

\* The loop over one node's neighbors. st holds the two heaps, the visited
\* set and (for the properties) every candidate whose distance was evaluated,
\* the number of distance evaluations and the number of rounds of the main
\* loop.
RECURSIVE ExpandNeighbors(_, _, _, _, _, _, _)
ExpandNeighbors(ns, query, eff, bitmap, nbrs, i, st) ==
  IF i > Len(nbrs) THEN st
  ELSE
    LET nid == nbrs[i] IN
    IF ~Unvisited(bitmap, st.visited, nid)
    THEN ExpandNeighbors(ns, query, eff, bitmap, nbrs, i + 1, st)
    ELSE
      LET c == Evaluate(ns, query, nid)
          st1 == [candidates |-> st.candidates \cup c,
                  best |-> IF c = {} THEN st.best
                           ELSE KeepWithinBeam(st.best \cup c, eff),
                  visited |-> st.visited \cup {nid},
                  evaluated |-> st.evaluated \cup c,
                  evals |-> st.evals + Cardinality(c),
                  pops |-> st.pops,
                  evicted |-> st.evicted \/
                              (c # {} /\ Cardinality(st.best \cup c) > eff)]
      IN ExpandNeighbors(ns, query, eff, bitmap, nbrs, i + 1, st1)

\* The stop test of the main loop.
ShouldStop(best, eff, current) ==
  /\ best # {}
  /\ Cardinality(best) >= eff
  /\ Gt(current.distance, HeapPeek(best).distance)

RECURSIVE SearchLoop(_, _, _, _, _)
SearchLoop(ns, query, eff, bitmap, st) ==
  IF st.candidates = {} THEN st
  ELSE
    LET current == HeapPeek(st.candidates)
        st1 == [st EXCEPT !.candidates = HeapPop(st.candidates),
                          !.pops = st.pops + 1]
    IN
    IF ShouldStop(st1.best, eff, current) THEN st1
    ELSE IF current.id \in DOMAIN ns
    THEN SearchLoop(ns, query, eff, bitmap,
           ExpandNeighbors(ns, query, eff, bitmap,
                           ns[current.id].neighbors, 1, st1))
    ELSE SearchLoop(ns, query, eff, bitmap, st1)

NoSearch ==
  [result |-> <<>>, evaluated |-> {}, visited |-> {}, evicted |-> FALSE,
   evals |-> 0, pops |-> 0]

\* The body shared by beam_search and beam_search_with_buffer. order is the
\* iteration order of the node map (keys().next() is its first element).
BeamWalk(ns, query, k, beam_width, start_id, order, bitmap) ==
  IF start_id \notin DOMAIN ns /\ order = <<>> THEN NoSearch
  ELSE
    LET actual_start_id == IF start_id \in DOMAIN ns THEN start_id ELSE order[1]
        effective_beam_width == Max(beam_width, k * 2)
        start_candidate ==
          Candidate(actual_start_id, Distance(query, ns[actual_start_id].vector))
        st0 == [candidates |-> {start_candidate},
                best |-> {start_candidate},
                visited |-> MarkedAtEntry(bitmap) \cup MarkStart(bitmap, actual_start_id),
                evaluated |-> {start_candidate},
                evals |-> 1,
                pops |-> 0,
                evicted |-> FALSE]
        st == SearchLoop(ns, query, effective_beam_width, bitmap, st0)
    IN [result |-> Truncate(Reverse(IntoSortedVec(st.best)), k),
        evaluated |-> st.evaluated,
        visited |-> st.visited,
        evicted |-> st.evicted,
        evals |-> st.evals,
        pops |-> st.pops]

beam_search(ns, query, k, beam_width, start_id, order) ==
  BeamWalk(ns, query, k, beam_width, start_id, order, {})

\* The walk over the bitmap of the buffer, prepared for nodes.len() nodes.
beam_search_with_buffer(ns, query, k, beam_width, start_id, order, buffer) ==
  BeamWalk(ns, query, k, beam_width, start_id, order,
           {PrepareBuffer(buffer, Cardinality(DOMAIN ns))})

\* ---------------------------------------------------------- robust prune
\* remaining.iter().enumerate().min_by(distance): the first index of a
\* minimum distance (min_by keeps the earlier of two equal elements).
MinIndex(remaining) ==
  CHOOSE i \in 1..Len(remaining) :
    \A j \in 1..Len(remaining) :
      /\ j < i => remaining[j].distance > remaining[i].distance
      /\ j > i => remaining[j].distance >= remaining[i].distance

\* Vec::remove(idx) leaves the other elements in order.
RemoveAt(s, i) == SubSeq(s, 1, i - 1) \o SubSeq(s, i + 1, Len(s))

\* A variant of Retain that keeps every candidate that resolves, redundant
\* or not; C20 must tell it from Retain.
RetainResolved(ns, alpha, best_id, remaining) ==
  IF best_id \notin DOMAIN ns THEN remaining
  ELSE LET Keep(c) == c.id \in DOMAIN ns IN SelectSeq(remaining, Keep)

\* remaining.retain(..): only when the selected candidate resolves.
Retain(ns, alpha, best_id, remaining) ==
  IF best_id \notin DOMAIN ns THEN remaining
  ELSE
    LET Keep(c) ==
          /\ c.id \in DOMAIN ns
          /\ LessThanScaled(c.distance, alpha,
                            Distance(ns[best_id].vector, ns[c.id].vector))
    IN SelectSeq(remaining, Keep)

RECURSIVE PruneLoop(_, _, _, _, _)
PruneLoop(ns, max_degree, alpha, pruned, remaining) ==
  IF remaining = <<>> \/ ~(Len(pruned) < max_degree) THEN pruned
  ELSE
    LET best_idx == MinIndex(remaining)
        best_candidate == remaining[best_idx]
    IN PruneLoop(ns, max_degree, alpha, Append(pruned, best_candidate.id),
                 Retain(ns, alpha, best_candidate.id, RemoveAt(remaining, best_idx)))

robust_prune(ns, max_degree, alpha, candidates) ==
  PruneLoop(ns, max_degree, alpha, <<>>, candidates)

\* Whether robust_prune panics: min_by compares every element of a list of
\* two or more, and partial_cmp(..).unwrap() panics on a NaN distance.
RECURSIVE PrunePanicsLoop(_, _, _, _, _)
PrunePanicsLoop(ns, max_degree, alpha, pruned, remaining) ==
  IF remaining = <<>> \/ ~(Len(pruned) < max_degree) THEN FALSE
  ELSE IF /\ Len(remaining) >= 2
          /\ \E i \in 1..Len(remaining) : remaining[i].distance = NaN
  THEN TRUE
  ELSE
    LET best_idx == MinIndex(remaining)
        best_candidate == remaining[best_idx]
    IN PrunePanicsLoop(ns, max_degree, alpha, Append(pruned, best_candidate.id),
                       Retain(ns, alpha, best_candidate.id, RemoveAt(remaining, best_idx)))

PrunePanics(ns, max_degree, alpha, candidates) ==
  PrunePanicsLoop(ns, max_degree, alpha, <<>>, candidates)

\* ---------------------------------------------------------------- medoid
\* An f32 sum: INFINITY once any term is.
RECURSIVE TotalDistance(_, _, _, _)
TotalDistance(ns, candidate_id, node_ids, i) ==
  IF i > Len(node_ids) THEN 0
  ELSE
    LET other_id == node_ids[i]
        d == IF candidate_id = other_id THEN 0
             ELSE Distance(ns[candidate_id].vector, ns[other_id].vector)
        rest == TotalDistance(ns, candidate_id, node_ids, i + 1)
    IN Plus(d, rest)

RECURSIVE MedoidLoop(_, _, _, _, _)
MedoidLoop(ns, node_ids, i, best_id, best_total_distance) ==
  IF i > Len(node_ids) THEN best_id
  ELSE
    LET total_distance == TotalDistance(ns, node_ids[i], node_ids, 1) IN
    IF Lt(total_distance, best_total_distance)
    THEN MedoidLoop(ns, node_ids, i + 1, node_ids[i], total_distance)
    ELSE MedoidLoop(ns, node_ids, i + 1, best_id, best_total_distance)

\* find_medoid with node_ids the keys in iteration order; an Option is the
\* empty set (None) or a singleton (Some).
find_medoid(ns, node_ids) ==
  IF node_ids = <<>> THEN {}
  ELSE IF Len(node_ids) = 1 THEN {node_ids[1]}
  ELSE {MedoidLoop(ns, node_ids, 1, node_ids[1], Inf)}

\* ----------------------------------------------------------------- insert
\* HashMap::insert: a present key's value is replaced.
MapInsert(ns, id, node) ==
  [n \in DOMAIN ns \cup {id} |-> IF n = id THEN node ELSE ns[n]]

\* A variant of SetNeighbors that carries the pushed id one hop further, onto
\* the lists of the node's own neighbors; C24 must tell it from SetNeighbors.
SetNeighborsTwoHop(ns, id, list) ==
  [n \in DOMAIN ns |->
     IF n = id THEN [ns[n] EXCEPT !.neighbors = list]
     ELSE IF n \in Range(ns[id].neighbors) /\ list # <<>>
     THEN [ns[n] EXCEPT !.neighbors = Append(ns[n].neighbors, list[Len(list)])]
     ELSE ns[n]]

SetNeighbors(ns, id, list) == [ns EXCEPT ![id].neighbors = list]

\* A variant of NeedsPruning that tolerates one neighbor too many; C1 must
\* tell it from NeedsPruning.
NeedsPruningLate(cfg, list) == Len(list) > cfg.R + 1

\* neighbor_node.neighbors.len() > self.config.max_degree
NeedsPruning(cfg, list) == Len(list) > cfg.R

\* A variant of PushReverse that pushes the neighbor's own id; C7 must tell it
\* from PushReverse.
PushReverseSelf(list, id, neighbor_id) == Append(list, neighbor_id)

\* neighbor_node.neighbors.push(id)
PushReverse(list, id, neighbor_id) == Append(list, id)

\* The candidates of a re-prune: the neighbor's own neighbors scored from it,
\* INFINITY for an id that does not resolve.
NeighborCandidates(ns, neighbor_id) ==
  LET neighbor_ids == ns[neighbor_id].neighbors IN
  [j \in 1..Len(neighbor_ids) |->
     IF neighbor_ids[j] \in DOMAIN ns
     THEN Candidate(neighbor_ids[j],
                    Distance(ns[neighbor_id].vector, ns[neighbor_ids[j]].vector))
     ELSE Candidate(neighbor_ids[j], Inf)]

\* "Add reverse edges and maintain degree constraints"
RECURSIVE ReverseEdges(_, _, _, _, _)
ReverseEdges(cfg, ns, id, neighbors, i) ==
  IF i > Len(neighbors) THEN ns
  ELSE
    LET neighbor_id == neighbors[i] IN
    IF neighbor_id \notin DOMAIN ns
    THEN ReverseEdges(cfg, ns, id, neighbors, i + 1)
    ELSE
      LET pushed == PushReverse(ns[neighbor_id].neighbors, id, neighbor_id)
          ns1 == SetNeighbors(ns, neighbor_id, pushed)
          ns2 == IF NeedsPruning(cfg, pushed)
                 THEN SetNeighbors(ns1, neighbor_id,
                        robust_prune(ns1, cfg.R, cfg.alpha,
                                     NeighborCandidates(ns1, neighbor_id)))
                 ELSE ns1
      IN ReverseEdges(cfg, ns2, id, neighbors, i + 1)

\* Whether a re-prune of the reverse-edge loop panics: the first neighbor
\* whose re-prune panics is reached with the lists the loop has made so far.
ReversePanics(cfg, ns, id, neighbors) ==
  \E i \in 1..Len(neighbors) :
    LET neighbor_id == neighbors[i]
        before == ReverseEdges(cfg, ns, id, SubSeq(neighbors, 1, i - 1), 1)
    IN /\ neighbor_id \in DOMAIN before
       /\ LET pushed == PushReverse(before[neighbor_id].neighbors, id, neighbor_id)
              ns1 == SetNeighbors(before, neighbor_id, pushed)
          IN /\ NeedsPruning(cfg, pushed)
             /\ PrunePanics(ns1, cfg.R, cfg.alpha, NeighborCandidates(ns1, neighbor_id))

\* Whether insert_node panics: in the prune of the search result or in a
\* re-prune of a neighbor.
InsertPanics(cfg, idx, id, vector, pre) ==
  /\ DOMAIN idx.nodes # {}
  /\ LET start_id == IF idx.start_node # {} THEN Unwrap(idx.start_node) ELSE pre[1]
         candidates ==
           beam_search(idx.nodes, vector, cfg.L, cfg.L, start_id, pre).result
     IN \/ PrunePanics(idx.nodes, cfg.R, cfg.alpha, candidates)
        \/ LET neighbors == robust_prune(idx.nodes, cfg.R, cfg.alpha, candidates)
               installed ==
                 MapInsert(idx.nodes, id, [vector |-> vector, neighbors |-> neighbors])
           IN ReversePanics(cfg, installed, id, neighbors)

\* insert_node up to the medoid update: the node map it leaves. pre is the
\* iteration order of the node map before the insertion.
InsertEdges(cfg, idx, id, vector, pre) ==
  IF DOMAIN idx.nodes = {}
  THEN MapInsert(idx.nodes, id, GraphNode(vector))
  ELSE
    LET start_id == IF idx.start_node # {} THEN Unwrap(idx.start_node) ELSE pre[1]
        candidates ==
          beam_search(idx.nodes, vector, cfg.L, cfg.L, start_id, pre).result
        neighbors == robust_prune(idx.nodes, cfg.R, cfg.alpha, candidates)
        installed ==
          MapInsert(idx.nodes, id, [vector |-> vector, neighbors |-> neighbors])
    IN ReverseEdges(cfg, installed, id, neighbors, 1)

\* "Update start node to be the medoid" (the first node becomes it directly).
StartAfterInsert(idx, linked, id, post) ==
  IF DOMAIN idx.nodes = {} THEN {id} ELSE find_medoid(linked, post)

\* The iteration orders insert_node can observe before the insertion: it
\* reads keys().next() only when start_node does not resolve, so one order
\* stands for all when it does.
PreOrders(idx) ==
  IF idx.start_node # {} /\ idx.start_node \subseteq DOMAIN idx.nodes
  THEN {Ascending(DOMAIN idx.nodes)}
  ELSE IterationOrders(DOMAIN idx.nodes)

\* insert_node: the indexes it can leave, one per iteration order of the
\* node map (HashMap iteration order is not fixed by the program).
insert_node(cfg, idx, id, vector) ==
  UNION {
    LET linked == InsertEdges(cfg, idx, id, vector, pre) IN
    {[nodes |-> linked, start_node |-> StartAfterInsert(idx, linked, id, post)] :
       post \in IterationOrders(DOMAIN linked)} :
    pre \in PreOrders(idx)}

\* ----------------------------------------------------------------- remove
\* HashMap::remove
MapRemove(ns, id) == [n \in DOMAIN ns \ {id} |-> ns[n]]

\* A variant of Without that also drops what follows the first occurrence of
\* the id; C30 must tell it from Without.
WithoutFrom(list, id) ==
  IF id \notin Range(list) THEN list
  ELSE SubSeq(list, 1, (CHOOSE i \in 1..Len(list) :
                          list[i] = id /\ \A j \in 1..(i - 1) : list[j] # id) - 1)

\* neighbors.retain(|&x| x != id)
Without(list, id) == LET Keep(x) == x # id IN SelectSeq(list, Keep)

\* "Remove references to this node from all neighbors": the neighbors are
\* those of the removed node's own list.
RECURSIVE StripReferences(_, _, _, _)
StripReferences(ns, id, neighbors, i) ==
  IF i > Len(neighbors) THEN ns
  ELSE IF neighbors[i] \in DOMAIN ns
  THEN StripReferences(
         SetNeighbors(ns, neighbors[i], Without(ns[neighbors[i]].neighbors, id)),
         id, neighbors, i + 1)
  ELSE StripReferences(ns, id, neighbors, i + 1)

\* "Add new connections while maintaining degree limit"
RECURSIVE AddConnections(_, _, _, _)
AddConnections(list, max_degree, new_connections, j) ==
  IF j > Len(new_connections) THEN list
  ELSE IF new_connections[j] \notin Range(list) /\ Len(list) < max_degree
  THEN AddConnections(Append(list, new_connections[j]), max_degree,
                      new_connections, j + 1)
  ELSE AddConnections(list, max_degree, new_connections, j + 1)

\* "Add reverse edges in a separate loop"
RECURSIVE AddReverseConnections(_, _, _, _, _)
AddReverseConnections(ns, max_degree, neighbor_id, new_connections, j) ==
  IF j > Len(new_connections) THEN ns
  ELSE
    LET new_conn_id == new_connections[j] IN
    IF /\ new_conn_id \in Range(ns[neighbor_id].neighbors)
       /\ new_conn_id \in DOMAIN ns
       /\ neighbor_id \notin Range(ns[new_conn_id].neighbors)
       /\ Len(ns[new_conn_id].neighbors) < max_degree
    THEN AddReverseConnections(
           SetNeighbors(ns, new_conn_id, Append(ns[new_conn_id].neighbors, neighbor_id)),
           max_degree, neighbor_id, new_connections, j + 1)
    ELSE AddReverseConnections(ns, max_degree, neighbor_id, new_connections, j + 1)

\* "Repair connectivity: connect orphaned neighbors to each other". start_node
\* is still the one from before the removal; order is the iteration order of
\* the node map, which the loop does not change.
RECURSIVE RepairConnectivity(_, _, _, _, _, _)
RepairConnectivity(cfg, ns, start_node_, neighbors, i, order) ==
  IF i > Len(neighbors) THEN ns
  ELSE
    LET neighbor_id == neighbors[i]
        NotSelf(other_id) == other_id # neighbor_id
        other_neighbors == SelectSeq(neighbors, NotSelf)
    IN
    IF neighbor_id \notin DOMAIN ns \/ other_neighbors = <<>>
    THEN RepairConnectivity(cfg, ns, start_node_, neighbors, i + 1, order)
    ELSE
      LET start_id == IF start_node_ # {} THEN Unwrap(start_node_)
                      ELSE other_neighbors[1]
          candidates == beam_search(ns, ns[neighbor_id].vector, cfg.L, cfg.L,
                                    start_id, order).result
          new_connections == robust_prune(ns, cfg.R, cfg.alpha, candidates)
          ns1 == SetNeighbors(ns, neighbor_id,
                   AddConnections(ns[neighbor_id].neighbors, cfg.R,
                                  new_connections, 1))
          ns2 == AddReverseConnections(ns1, cfg.R, neighbor_id,
                                       new_connections, 1)
      IN RepairConnectivity(cfg, ns2, start_node_, neighbors, i + 1, order)

\* A variant of StartAfterRemove that keeps the entry point it had; C9 must
\* tell it from StartAfterRemove.
StartAfterRemoveStale(ns, start_node_, id, order) == start_node_

\* "Update start node"
StartAfterRemove(ns, start_node_, id, order) ==
  IF start_node_ = {id} THEN find_medoid(ns, order) ELSE start_node_

\* A variant of RemoveWithOrder that recomputes the entry point even when
\* the id is not in the index; C18 must tell it from RemoveWithOrder.
RemoveWithOrderEager(cfg, idx, id, order) ==
  IF id \notin DOMAIN idx.nodes
  THEN [idx EXCEPT !.start_node = find_medoid(idx.nodes, order)]
  ELSE
    LET neighbors == idx.nodes[id].neighbors
        stripped == StripReferences(MapRemove(idx.nodes, id), id, neighbors, 1)
        repaired == IF Len(neighbors) > 1
                    THEN RepairConnectivity(cfg, stripped, idx.start_node,
                                            neighbors, 1, order)
                    ELSE stripped
    IN [nodes |-> repaired,
        start_node |-> StartAfterRemove(repaired, idx.start_node, id, order)]

\* remove_node, with order the iteration order of the node map after the
\* removal.
RemoveWithOrder(cfg, idx, id, order) ==
  IF id \notin DOMAIN idx.nodes THEN idx
  ELSE
    LET neighbors == idx.nodes[id].neighbors
        stripped == StripReferences(MapRemove(idx.nodes, id), id, neighbors, 1)
        repaired == IF Len(neighbors) > 1
                    THEN RepairConnectivity(cfg, stripped, idx.start_node,
                                            neighbors, 1, order)
                    ELSE stripped
    IN [nodes |-> repaired,
        start_node |-> StartAfterRemove(repaired, idx.start_node, id, order)]

\* remove_node: the indexes it can leave, one per iteration order.
remove_node(cfg, idx, id) ==
  {RemoveWithOrder(cfg, idx, id, order) :
     order \in IterationOrders(DOMAIN idx.nodes \ {id})}

\* ----------------------------------------------------------------- search
\* The start id of the Search methods.
SearchStart(idx, order) ==
  IF idx.start_node # {} /\ idx.start_node \subseteq DOMAIN idx.nodes
  THEN Unwrap(idx.start_node)
  ELSE order[1]

\* Search::search
search(cfg, idx, query, k, order) ==
  IF DOMAIN idx.nodes = {} THEN NoSearch
  ELSE beam_search(idx.nodes, query, k, cfg.L, SearchStart(idx, order), order)

\* Search::search_with_beam
search_with_beam(cfg, idx, query, k, beam_width, order) ==
  IF DOMAIN idx.nodes = {} THEN NoSearch
  ELSE beam_search(idx.nodes, query, k, beam_width, SearchStart(idx, order), order)

\* Search::search_with_buffer
search_with_buffer(cfg, idx, query, k, beam_width, order, buffer) ==
  IF DOMAIN idx.nodes = {} THEN NoSearch
  ELSE beam_search_with_buffer(idx.nodes, query, k, beam_width,
                               SearchStart(idx, order), order, buffer)

\* The iteration orders a search can observe (see PreOrders).
SearchOrders(idx) == PreOrders(idx)

\* ------------------------------------------------------------ diagnostics
\* The loop over one node's neighbors in is_reachable_within_k_hops: lv holds
\* whether the target was met, the visited set and the next level.
RECURSIVE ScanNeighbors(_, _, _, _)
ScanNeighbors(target_id, nbrs, j, lv) ==
  IF j > Len(nbrs) \/ lv.found THEN lv
  ELSE
    LET neighbor_id == nbrs[j] IN
    IF neighbor_id = target_id
    THEN [lv EXCEPT !.found = TRUE]
    ELSE IF neighbor_id \notin lv.visited
    THEN ScanNeighbors(target_id, nbrs, j + 1,
           [lv EXCEPT !.visited = lv.visited \cup {neighbor_id},
                      !.next_level = Append(lv.next_level, neighbor_id)])
    ELSE ScanNeighbors(target_id, nbrs, j + 1, lv)

\* The loop over the nodes of the current level.
RECURSIVE ScanLevel(_, _, _, _, _)
ScanLevel(ns, target_id, current_level, i, lv) ==
  IF i > Len(current_level) \/ lv.found THEN lv
  ELSE IF current_level[i] \in DOMAIN ns
  THEN ScanLevel(ns, target_id, current_level, i + 1,
         ScanNeighbors(target_id, ns[current_level[i]].neighbors, 1, lv))
  ELSE ScanLevel(ns, target_id, current_level, i + 1, lv)

\* "for _ in 0..k": hops is the number of rounds left.
RECURSIVE HopLoop(_, _, _, _, _)
HopLoop(ns, target_id, hops, visited, current_level) ==
  IF hops = 0 THEN FALSE
  ELSE
    LET lv == ScanLevel(ns, target_id, current_level, 1,
                        [found |-> FALSE, visited |-> visited, next_level |-> <<>>])
    IN IF lv.found THEN TRUE
       ELSE IF lv.next_level = <<>> THEN FALSE
       ELSE HopLoop(ns, target_id, hops - 1, lv.visited, lv.next_level)

\* A variant of is_reachable_within_k_hops that walks one level more; C28
\* must tell it from is_reachable_within_k_hops.
is_reachable_one_hop_more(ns, target_id, pivot_id, k) ==
  IF target_id = pivot_id THEN TRUE
  ELSE HopLoop(ns, target_id, k + 1, {pivot_id}, <<pivot_id>>)

\* VamanaIndex::is_reachable_within_k_hops
is_reachable_within_k_hops(ns, target_id, pivot_id, k) ==
  IF target_id = pivot_id THEN TRUE
  ELSE HopLoop(ns, target_id, k, {pivot_id}, <<pivot_id>>)

\* degree_distribution, with node_ids the keys in iteration order.
degree_distribution(ns, node_ids) ==
  [i \in 1..Len(node_ids) |-> Len(ns[node_ids[i]].neighbors)]

RECURSIVE SumSeq(_, _)
SumSeq(s, i) == IF i > Len(s) THEN 0 ELSE s[i] + SumSeq(s, i + 1)

\* average_degree as the ratio <<total_degree, nodes.len()>>; 0.0 when empty.
average_degree(ns, node_ids) ==
  IF node_ids = <<>> THEN <<0, 1>>
  ELSE <<SumSeq(degree_distribution(ns, node_ids), 1), Len(node_ids)>>

\* ------------------------------------------------------------------ build
\* The inputs of build: up to MaxBuild (id, vector) pairs with pairwise
\* distinct ids.
BuildInputs ==
  {vectors \in UNION {[1..n -> Ids \X Vectors] : n \in 0..MaxBuild} :
     \A i, j \in 1..Len(vectors) : i # j => vectors[i][1] # vectors[j][1]}

\* The Fisher-Yates shuffle under some seed: a permutation of the input.
Shuffles(vectors) ==
  {[i \in 1..Len(vectors) |-> vectors[p[i]]] : p \in KeyOrders(1..Len(vectors))}

\* "Sequential insertion during construction"
RECURSIVE InsertAll(_, _, _, _)
InsertAll(cfg, idx, shuffled_vectors, i) ==
  IF i > Len(shuffled_vectors) THEN {idx}
  ELSE UNION {InsertAll(cfg, next, shuffled_vectors, i + 1) :
                next \in insert_node(cfg, idx, shuffled_vectors[i][1],
                                     shuffled_vectors[i][2])}

EmptyMap == [n \in {} |-> GraphNode(<<>>)]

\* VamanaIndex::new
NewIndex == [nodes |-> EmptyMap, start_node |-> {}]

\* IndexBuilder::build: the indexes it can return for one shuffled input.
build(cfg, shuffled_vectors) == InsertAll(cfg, NewIndex, shuffled_vectors, 1)

\* ---------------------------------------------------------------- actions
Index == [nodes |-> nodes, start_node |-> start_node]

SearchOps == {"search", "search_with_beam", "search_with_buffer"}

\* What the last call was: its name, whether it returned Ok (every method of
\* the index ends in Ok), and for a search its k and what the walk did.
Call(op, k, out) == [op |-> op, ok |-> TRUE, k |-> k, out |-> out]

\* A run is a sequence of mutating calls observed up to its first search: a
\* search leaves the index as it is, so the calls after it would start from
\* the same index states again.
Running == last.op \notin SearchOps

Init ==
  /\ config \in Configs
  /\ nodes = NewIndex.nodes
  /\ start_node = NewIndex.start_node
  /\ last = Call("new", 0, NoSearch)
  /\ dups = 0
  /\ ops = 0

\* Index::add(id, vector) -> insert_node
AddCall(id, vector) ==
  \E next \in insert_node(config, Index, id, vector) :
    /\ nodes' = next.nodes
    /\ start_node' = next.start_node
    /\ last' = Call("add", 0, NoSearch)
    /\ ops' = ops + 1
    /\ UNCHANGED config

\* add with an id that is not in the index
Add ==
  /\ Running
  /\ ops < MaxOps
  /\ \E id \in Ids \ DOMAIN nodes, vector \in Vectors :
       AddCall(id, vector) /\ dups' = dups

\* add with an id that is in the index
AddPresent ==
  /\ Running
  /\ ops < MaxOps
  /\ dups < MaxDups
  /\ \E id \in DOMAIN nodes, vector \in Vectors :
       AddCall(id, vector) /\ dups' = dups + 1

\* Index::remove(id) -> remove_node
Remove ==
  /\ Running
  /\ ops < MaxOps
  /\ \E id \in Ids :
       \E next \in remove_node(config, Index, id) :
         /\ nodes' = next.nodes
         /\ start_node' = next.start_node
         /\ last' = Call("remove", 0, NoSearch)
         /\ ops' = ops + 1
         /\ UNCHANGED <<config, dups>>

SearchDefault ==
  /\ Running
  /\ \E query \in Vectors, k \in 1..MaxK, order \in SearchOrders(Index) :
       /\ last' = Call("search", k, search(config, Index, query, k, order))
       /\ UNCHANGED <<nodes, start_node, config, dups, ops>>

SearchWithBeam ==
  /\ Running
  /\ \E query \in Vectors, k \in 1..MaxK, beam_width \in 1..MaxBeam,
        order \in SearchOrders(Index) :
       /\ last' = Call("search_with_beam", k,
                       search_with_beam(config, Index, query, k, beam_width, order))
       /\ UNCHANGED <<nodes, start_node, config, dups, ops>>

SearchWithBuffer ==
  /\ Running
  /\ \E query \in Vectors, k \in 1..MaxK, beam_width \in 1..MaxBeam,
        order \in SearchOrders(Index), buffer \in {NewBuffer, DirtyBuffer} :
       /\ last' = Call("search_with_buffer", k,
                       search_with_buffer(config, Index, query, k, beam_width,
                                          order, buffer))
       /\ UNCHANGED <<nodes, start_node, config, dups, ops>>

\* IndexBuilder::build makes its own index, so it is the first mutating call.
Build ==
  /\ Running
  /\ ops = 0
  /\ \E vectors \in BuildInputs :
       \E shuffled_vectors \in Shuffles(vectors) :
         \E next \in build(config, shuffled_vectors) :
           /\ nodes' = next.nodes
           /\ start_node' = next.start_node
           /\ last' = Call("build", 0, NoSearch)
           /\ ops' = ops + 1
           /\ UNCHANGED <<config, dups>>

\* Callers keep ids unique within the index.
Next ==
  \/ Add
  \/ Remove
  \/ SearchDefault
  \/ SearchWithBeam
  \/ SearchWithBuffer
  \/ Build

Spec == Init /\ [][Next]_vars

\* Callers may also add an id that is already in the index.
NextDup ==
  \/ Add
  \/ AddPresent
  \/ Remove
  \/ SearchDefault
  \/ SearchWithBeam
  \/ SearchWithBuffer
  \/ Build

SpecDup == Init /\ [][NextDup]_vars

\* add with a vector whose length differs from that of the stored vectors
AddWrongLength ==
  /\ Running
  /\ ops < MaxOps
  /\ DOMAIN nodes # {}
  /\ \E id \in Ids \ DOMAIN nodes, vector \in WrongLengthVectors :
       AddCall(id, vector) /\ dups' = dups

\* search with a query whose length differs from that of the stored vectors
SearchWrongLength ==
  /\ Running
  /\ \E query \in WrongLengthVectors, k \in 1..MaxK, order \in SearchOrders(Index) :
       /\ last' = Call("search", k, search(config, Index, query, k, order))
       /\ UNCHANGED <<nodes, start_node, config, dups, ops>>

\* Callers may also supply vectors of another length.
NextDim ==
  \/ Add
  \/ AddWrongLength
  \/ Remove
  \/ SearchDefault
  \/ SearchWrongLength

SpecDim == Init /\ [][NextDim]_vars

\* add by a caller that numbers its vectors 0, 1, 2, ... and has removed
\* nothing yet: the index is the one build makes of these vectors in id order.
AddNext ==
  /\ Running
  /\ ops < MaxWide
  /\ ops = Cardinality(DOMAIN nodes)
  /\ \E vector \in Vectors : AddCall(ops, vector) /\ dups' = dups

\* A call that panicked: the process is gone and no call follows.
Panic(op) == [op |-> op, ok |-> FALSE, k |-> 0, out |-> NoSearch]

\* add of a vector that may hold NaN or an infinity, up to three nodes.
AddNonFinite ==
  /\ Running
  /\ last.ok
  /\ \E id \in Ids \ DOMAIN nodes, vector \in Vectors \cup NonFiniteVectors :
       \E pre \in PreOrders(Index) :
         IF InsertPanics(config, Index, id, vector, pre)
         THEN /\ last' = Panic("add")
              /\ UNCHANGED <<nodes, start_node, config, dups, ops>>
         ELSE LET linked == InsertEdges(config, Index, id, vector, pre) IN
              \E post \in IterationOrders(DOMAIN linked) :
                /\ nodes' = linked
                /\ start_node' = StartAfterInsert(Index, linked, id, post)
                /\ last' = Call("add", 0, NoSearch)
                /\ ops' = ops + 1
                /\ UNCHANGED <<config, dups>>

\* Callers may also supply vectors with non-finite components.
NextNaN == AddNonFinite

SpecNaN == Init /\ [][NextNaN]_vars

\* Callers number up to MaxWide vectors in sequence, then remove.
NextWide ==
  \/ AddNext
  \/ Remove

SpecWide == Init /\ [][NextWide]_vars

\* ------------------------------------------------------------ properties
Searched == last.op \in SearchOps

Results == last.out.result

Neighbors(n) == nodes[n].neighbors

\* C1: after any sequence of build, add and remove, every node's neighbor
\* list holds at most R = config.max_degree ids, so every entry of
\* degree_distribution() and average_degree() are at most R.
C1_DegreeBound ==
  /\ \A n \in DOMAIN nodes : Len(Neighbors(n)) <= config.R
  /\ \A node_ids \in KeyOrders(DOMAIN nodes) :
       /\ \A i \in 1..Len(node_ids) :
            degree_distribution(nodes, node_ids)[i] <= config.R
       /\ average_degree(nodes, node_ids)[1]
            <= config.R * average_degree(nodes, node_ids)[2]

\* An add has left a node with exactly R neighbors in an index that holds
\* more than R other nodes.
C1_Witness ==
  /\ last.op = "add"
  /\ Cardinality(DOMAIN nodes) > config.R + 1
  /\ \E n \in DOMAIN nodes : Len(Neighbors(n)) = config.R

\* C2: every list a search returns is sorted ascending by distance, and
\* results of equal distance appear in ascending id order.
C2_SortedAscendingIds ==
  Searched =>
    \A i, j \in 1..Len(Results) :
      i < j =>
        \/ Results[i].distance < Results[j].distance
        \/ Results[i].distance = Results[j].distance /\ Results[i].id < Results[j].id

\* C3: the candidate evicted from the best heap is the one of largest
\* distance, so the returned list is the k closest of all nodes evaluated
\* during the walk.
C3_KClosestOfEvaluated ==
  Searched =>
    /\ Len(Results) = Min(last.k, Cardinality(last.out.evaluated))
    /\ \A c \in last.out.evaluated \ Range(Results) :
         \A i \in 1..Len(Results) : Results[i].distance <= c.distance

\* C4: no search returns an id that is not in the index (an id that was
\* removed and not added again).
C4_NoRemovedIdReturned ==
  Searched => \A i \in 1..Len(Results) : Results[i].id \in DOMAIN nodes

\* A search whose walk reached the id of a removed node.
C4_Witness ==
  /\ Searched
  /\ Results # <<>>
  /\ \E id \in last.out.visited : id \notin DOMAIN nodes

\* C5: every id in every neighbor list resolves to a node of the index.
C5_NoDanglingNeighbor ==
  \A n \in DOMAIN nodes : Range(Neighbors(n)) \subseteq DOMAIN nodes

\* C6: with ids added only when not present, no node lists itself as a
\* neighbor.
C6_NoSelfLoop ==
  \A n \in DOMAIN nodes : n \notin Range(Neighbors(n))

\* C7: after build on pairwise-distinct ids, every neighbor id is the id of
\* an existing node other than the node itself.
C7_BuiltGraphWellFormed ==
  last.op = "build" =>
    \A n \in DOMAIN nodes :
      \A nb \in Range(Neighbors(n)) : nb \in DOMAIN nodes /\ nb # n

\* A build of MaxBuild vectors that has installed edges.
C7_Witness ==
  /\ last.op = "build"
  /\ Cardinality(DOMAIN nodes) = MaxBuild
  /\ \A n \in DOMAIN nodes : Neighbors(n) # <<>>

\* C8: with ids added only when not present, no neighbor list contains the
\* same id twice.
C8_NoDuplicateNeighbor ==
  \A n \in DOMAIN nodes :
    \A i, j \in 1..Len(Neighbors(n)) : i # j => Neighbors(n)[i] # Neighbors(n)[j]

\* C9: the entry point is present and names a node of the index whenever
\* the index is non-empty, and is absent when it is empty; a search on an
\* empty index returns an empty list without error.
C9_EntryPointResolves ==
  /\ DOMAIN nodes = {} => start_node = {}
  /\ DOMAIN nodes # {} => start_node # {} /\ start_node \subseteq DOMAIN nodes
  /\ Searched /\ DOMAIN nodes = {} => Results = <<>> /\ last.ok

\* A remove has taken a node out and left others, one of them the entry point.
C9_Witness ==
  /\ last.op = "remove"
  /\ ops > Cardinality(DOMAIN nodes)
  /\ Cardinality(DOMAIN nodes) > 1
  /\ start_node \subseteq DOMAIN nodes

\* C10: add with an id that is already present returns an error and leaves
\* the index exactly as it was.
C10_DuplicateAddRejected ==
  [][(last'.op = "add" /\ dups' = dups + 1) =>
       (~last'.ok /\ nodes' = nodes /\ start_node' = start_node)]_vars

\* C11: a vector of another length than the index dimension is rejected: add
\* leaves the index unchanged, so all stored vectors have one length, and a
\* search with such a query returns an error, so no Ok result carries the
\* INFINITY that Distance gives to vectors of different lengths.
C11_DimensionChecked ==
  /\ \A n, m \in DOMAIN nodes : Len(nodes[n].vector) = Len(nodes[m].vector)
  /\ Searched /\ last.ok => \A i \in 1..Len(Results) : Results[i].distance # Inf

\* C12: in every reachable index state, for every query, k and beam width,
\* search_with_buffer returns the list that search_with_beam returns.
C12_BufferMatchesBeam ==
  \A query \in Vectors, k \in 1..MaxK, beam_width \in 1..MaxBeam,
     order \in SearchOrders(Index) :
    search_with_buffer(config, Index, query, k, beam_width, order, NewBuffer).result
      = search_with_beam(config, Index, query, k, beam_width, order).result

\* C13: on an index built over N vectors with distinct ids, search_with_beam
\* and search_with_buffer return exactly min(k, N) results for every query,
\* every k >= 1 and every beam width.
C13_ExactlyMinKN ==
  last.op = "build" =>
    \A query \in Vectors, k \in 1..MaxBuild, beam_width \in 1..MaxBeam,
       order \in SearchOrders(Index) :
      /\ Len(search_with_beam(config, Index, query, k, beam_width, order).result)
           = Min(k, Cardinality(DOMAIN nodes))
      /\ Len(search_with_buffer(config, Index, query, k, beam_width, order, NewBuffer).result)
           = Min(k, Cardinality(DOMAIN nodes))

\* The input sequence of an index whose ids are 0..N-1: its vectors in id
\* order.
AddedSoFar ==
  [i \in 1..Cardinality(DOMAIN nodes) |-> <<i - 1, nodes[i - 1].vector>>]

Dense == DOMAIN nodes = 0..(Cardinality(DOMAIN nodes) - 1)

\* C14: two builds of the same input sequence under the same config give
\* every node the same degree, whatever order the node map is iterated in.
C14_BuildDegreesDeterministic ==
  Dense =>
    \A a, b \in build(config, AddedSoFar) :
      \A n \in DOMAIN nodes :
        Len(a.nodes[n].neighbors) = Len(b.nodes[n].neighbors)

\* The medoids of a node map: the nodes of minimum total distance to the
\* others.
Medoids(ns) ==
  {n \in DOMAIN ns :
     \A m \in DOMAIN ns :
       TotalDistance(ns, n, Ascending(DOMAIN ns), 1)
         <= TotalDistance(ns, m, Ascending(DOMAIN ns), 1)}

\* C15: after every add or remove that leaves the index non-empty, the entry
\* point is a medoid of the current node set.
C15_EntryPointIsMedoid ==
  last.op \in {"add", "remove"} /\ DOMAIN nodes # {} =>
    start_node # {} /\ start_node \subseteq Medoids(nodes)

\* C16: when several nodes tie for the minimum total distance, find_medoid
\* returns the one of smallest id, whatever order the node map is iterated
\* in.
C16_MedoidTieSmallestId ==
  \A node_ids \in KeyOrders(DOMAIN nodes) :
    \A best_id \in find_medoid(nodes, node_ids) :
      /\ best_id \in Medoids(nodes)
      /\ \A m \in Medoids(nodes) : best_id <= m

\* A beam wider than any index of the model: no candidate is ever evicted.
LargeBeam == 2 * MaxWide

ResultIds(result) == {result[i].id : i \in 1..Len(result)}

\* The ground truth of the recall test: the first k results of a search for
\* k * 2 with a very large beam.
TruthSet(query, k, order) ==
  ResultIds(Truncate(
    search_with_beam(config, Index, query, k * 2, LargeBeam, order).result, k))

\* The number of ground-truth ids among the k results at one beam width.
Recall(query, k, beam_width, order) ==
  Cardinality(
    TruthSet(query, k, order)
      \cap ResultIds(search_with_beam(config, Index, query, k, beam_width, order).result))

\* C17: on a built graph (only adds so far), for every query and k, the
\* recall against the very-large-beam ground truth does not decrease when
\* the beam width grows.
C17_RecallMonotone ==
  ops = Cardinality(DOMAIN nodes) =>
    \A query \in Vectors, k \in 1..MaxK, order \in SearchOrders(Index) :
      \A L1, L2 \in 1..MaxBeam :
        L1 <= L2 => Recall(query, k, L1, order) <= Recall(query, k, L2, order)

\* C18: remove of an id that is not in the index returns Ok and changes
\* neither the node set, nor a neighbor list, nor the entry point; so a
\* second remove of the same id leaves what the first one left.
C18_RemoveAbsentNoOp ==
  /\ last.op = "remove" => last.ok
  /\ \A id \in Ids \ DOMAIN nodes : remove_node(config, Index, id) = {Index}
  /\ \A id \in Ids :
       \A once \in remove_node(config, Index, id) :
         remove_node(config, once, id) = {once}

\* A remove has returned on an index that holds linked nodes and lacks an id.
C18_Witness ==
  /\ last.op = "remove"
  /\ Ids \ DOMAIN nodes # {}
  /\ \E n \in DOMAIN nodes : Neighbors(n) # <<>>

\* C19: build called with zero vectors returns an EmptyInput error rather
\* than an index: no Ok build leaves an empty index.
C19_EmptyBuildRejected ==
  last.op = "build" /\ DOMAIN nodes = {} => ~last.ok

\* The candidate lists of up to MaxCand existing nodes (an id may repeat),
\* each with its distance to the source vector.
CandidateLists(source) ==
  UNION {[1..n -> {Candidate(m, Distance(source, nodes[m].vector)) : m \in DOMAIN nodes}] :
           n \in 0..MaxCand}

\* What C20 says of one call of robust_prune.
PruneContract(source, candidates, pruned) ==
  /\ \A i, j \in 1..Len(pruned) : i # j => pruned[i] # pruned[j]
  /\ Len(pruned) <= config.R
  /\ Range(pruned) \subseteq {candidates[i].id : i \in 1..Len(candidates)}
  /\ candidates # <<>> =>
       /\ pruned # <<>>
       /\ \A i \in 1..Len(candidates) :
            Distance(source, nodes[pruned[1]].vector) <= candidates[i].distance
  /\ \A i, j \in 1..Len(pruned) :
       i < j =>
         LessThanScaled(Distance(source, nodes[pruned[j]].vector), config.alpha,
                        Distance(nodes[pruned[i]].vector, nodes[pruned[j]].vector))

\* C20: for every source and every list of existing candidates with their
\* distances to it, robust_prune returns a duplicate-free list of at most R
\* of the candidates' ids that starts with a closest candidate, and every
\* returned w is closer to the source than alpha times its distance to each
\* v returned before it.
C20_RobustPruneContract ==
  \A source \in Vectors :
    \A candidates \in CandidateLists(source) :
      PruneContract(source, candidates,
                    robust_prune(nodes, config.R, config.alpha, candidates))

\* A call that returns two ids and leaves out a candidate that one of them
\* makes redundant.
C20_Witness ==
  \E source \in Vectors :
    \E candidates \in CandidateLists(source) :
      LET pruned == robust_prune(nodes, config.R, config.alpha, candidates) IN
      /\ Len(pruned) = 2
      /\ \E i \in 1..Len(candidates) :
           /\ candidates[i].id \notin Range(pruned)
           /\ \E v \in Range(pruned) :
                ~LessThanScaled(candidates[i].distance, config.alpha,
                                Distance(nodes[v].vector, nodes[candidates[i].id].vector))

\* C21: in each selection step of robust_prune, of the remaining candidates
\* that share the minimum distance to the source the one of smallest id is
\* selected, whatever the order the candidates were passed in.
C21_PruneTieSmallestId ==
  \A source \in Vectors :
    \A candidates \in CandidateLists(source) :
      candidates # <<>> =>
        LET selected == robust_prune(nodes, config.R, config.alpha, candidates)[1]
            minimum == candidates[MinIndex(candidates)].distance
        IN \A i \in 1..Len(candidates) :
             candidates[i].distance = minimum => selected <= candidates[i].id

\* The search insert_node runs for a new vector on a non-empty index, with
\* pre the iteration order of the node map.
InsertSearch(vector, pre) ==
  LET start_id == IF start_node # {} THEN Unwrap(start_node) ELSE pre[1]
  IN beam_search(nodes, vector, config.L, config.L, start_id, pre)

\* C22: when add inserts into a non-empty index, the candidates handed to
\* robust_prune for the new node are all the nodes whose distance to the new
\* vector the beam search evaluated, also those outside its final list.
C22_PruneInputIsEvaluatedSet ==
  DOMAIN nodes # {} =>
    \A vector \in Vectors, pre \in PreOrders(Index) :
      LET walk == InsertSearch(vector, pre) IN
      ResultIds(walk.result) = {c.id : c \in walk.evaluated}

\* The ids a caller can add next: those the index does not hold.
FreshIds == (0..MaxWide) \ DOMAIN nodes

\* A neighbor list scored from node p, as C23 describes the input of the
\* re-prune; an id that does not resolve has no finite distance.
Scored(ns, p, list) ==
  [j \in 1..Len(list) |->
     Candidate(list[j],
               IF list[j] \in DOMAIN ns
               THEN Distance(ns[p].vector, ns[list[j]].vector)
               ELSE Inf)]

\* C23: after add(id, v) on a non-empty index, every p in the new node's
\* forward list has its old list with id appended if it had fewer than R
\* neighbors, and otherwise robust_prune (with alpha) of its old neighbors
\* plus id, scored by their distance from p.
C23_ReverseEdgeInstalled ==
  DOMAIN nodes # {} =>
    \A id \in FreshIds, vector \in Vectors :
      \A next \in insert_node(config, Index, id, vector) :
        \A p \in Range(next.nodes[id].neighbors) :
          LET appended == Append(Neighbors(p), id) IN
          IF Len(Neighbors(p)) < config.R
          THEN next.nodes[p].neighbors = appended
          ELSE next.nodes[p].neighbors =
                 robust_prune(next.nodes, config.R, config.alpha,
                              Scored(next.nodes, p, appended))

\* An add has returned, and a further add re-prunes a full neighbor so that
\* the new id is dropped from its list again.
C23_Witness ==
  /\ last.op = "add"
  /\ \E id \in FreshIds, vector \in Vectors :
       \E next \in insert_node(config, Index, id, vector) :
         \E p \in Range(next.nodes[id].neighbors) :
           /\ Len(Neighbors(p)) = config.R
           /\ id \notin Range(next.nodes[p].neighbors)

\* C24: add(id, v) changes only the new node's record, the neighbor lists
\* of the nodes in its forward list and the entry point: every other node's
\* neighbor list and every stored vector stay as they were.
C24_AddFrame ==
  \A id \in FreshIds, vector \in Vectors :
    \A next \in insert_node(config, Index, id, vector) :
      /\ DOMAIN next.nodes = DOMAIN nodes \cup {id}
      /\ \A n \in DOMAIN nodes :
           /\ next.nodes[n].vector = nodes[n].vector
           /\ n \notin Range(next.nodes[id].neighbors) =>
                next.nodes[n].neighbors = Neighbors(n)

\* An add has returned, and a further add links the new node to p while a
\* node two hops away, listed by p and with neighbors of its own, is not in
\* the forward list.
C24_Witness ==
  /\ last.op = "add"
  /\ \E id \in FreshIds, vector \in Vectors :
       \E next \in insert_node(config, Index, id, vector) :
         \E p \in Range(next.nodes[id].neighbors) :
           \E n \in Range(Neighbors(p)) \cap DOMAIN nodes :
             /\ n \notin Range(next.nodes[id].neighbors)
             /\ Neighbors(n) # <<>>

\* The nodes a walk from the ids in S can reach along neighbor lists.
RECURSIVE ReachableFrom(_, _)
ReachableFrom(ns, S) ==
  LET T == S \cup {m \in DOMAIN ns : \E n \in S : m \in Range(ns[n].neighbors)}
  IN IF T = S THEN S ELSE ReachableFrom(ns, T)

\* What a brute-force scan of the nodes in reach returns for k: the k
\* nearest of them (all of them if fewer), nearest first, with their
\* distances to the query.
BruteForce(query, k, reach, result) ==
  /\ Len(result) = Min(k, Cardinality(reach))
  /\ \A i, j \in 1..Len(result) : i # j => result[i].id # result[j].id
  /\ \A i \in 1..Len(result) :
       /\ result[i].id \in reach
       /\ result[i].distance = Distance(query, nodes[result[i].id].vector)
  /\ \A i, j \in 1..Len(result) : i < j => result[i].distance <= result[j].distance
  /\ \A m \in reach \ ResultIds(result) :
       \A i \in 1..Len(result) :
         result[i].distance <= Distance(query, nodes[m].vector)

\* C25: when the effective beam width max(L, 2k) is at least the number of
\* nodes, search_with_beam returns exactly the k nodes nearest to the query
\* among the nodes reachable from the entry point, nearest first.
C25_ExactForLargeBeam ==
  DOMAIN nodes # {} =>
    \A query \in Vectors, k \in 1..MaxK, beam_width \in 1..LargeBeam,
       order \in SearchOrders(Index) :
      Max(beam_width, k * 2) >= Cardinality(DOMAIN nodes) =>
        BruteForce(query, k, ReachableFrom(nodes, {SearchStart(Index, order)}),
                   search_with_beam(config, Index, query, k, beam_width, order).result)

\* A search whose effective beam is exactly the number of nodes, on an index
\* with a node the entry point does not reach, that leaves out a reachable
\* node farther away than those it returns.
C25_Witness ==
  /\ DOMAIN nodes # {}
  /\ \E query \in Vectors, k \in 1..MaxK, beam_width \in 1..LargeBeam,
        order \in SearchOrders(Index) :
       LET reach == ReachableFrom(nodes, {SearchStart(Index, order)})
           result == search_with_beam(config, Index, query, k, beam_width, order).result
       IN /\ Max(beam_width, k * 2) = Cardinality(DOMAIN nodes)
          /\ reach # DOMAIN nodes
          /\ Len(result) = k
          /\ \E m \in reach \ ResultIds(result) :
               Distance(query, nodes[m].vector) > result[k].distance

\* C26: the result of search_with_buffer does not depend on what the buffer
\* held before the call: a buffer with any visited flags set, of any length,
\* with left-over candidates, yields the list a fresh buffer yields.
C26_BufferIndependent ==
  \A query \in Vectors, k \in 1..MaxK, beam_width \in 1..MaxBeam,
     order \in SearchOrders(Index), buffer \in SearchBuffers :
    search_with_buffer(config, Index, query, k, beam_width, order, buffer).result
      = search_with_buffer(config, Index, query, k, beam_width, order, NewBuffer).result

\* A search with a buffer that holds a set flag for a node other than the
\* entry point, which the search nevertheless returns.
C26_Witness ==
  /\ DOMAIN nodes # {}
  /\ \E query \in Vectors, k \in 1..MaxK, beam_width \in 1..MaxBeam,
        order \in SearchOrders(Index), buffer \in SearchBuffers :
       \E m \in Flagged(buffer) \ {SearchStart(Index, order)} :
         m \in ResultIds(
                 search_with_buffer(config, Index, query, k, beam_width,
                                    order, buffer).result)

\* C27: add never panics on vectors with non-finite components: a vector
\* holding NaN or an infinity is accepted and add still returns Ok, for an
\* index of any size.
C27_AddNeverPanics ==
  last.op = "add" => last.ok

\* The ids the neighbor lists of the nodes in S name.
Successors(S) ==
  UNION {Range(nodes[n].neighbors) : n \in S \cap DOMAIN nodes}

\* The ids at the end of a path of 1 to k edges from pivot.
RECURSIVE WithinHops(_, _)
WithinHops(pivot_id, k) ==
  IF k = 0 THEN {}
  ELSE IF k = 1 THEN Successors({pivot_id})
  ELSE LET inner == WithinHops(pivot_id, k - 1)
       IN inner \cup Successors(inner)

\* C28: is_reachable_within_k_hops(target, pivot, k) is true exactly when
\* target = pivot or a directed path of 1 to k edges leads from pivot to
\* target along neighbor lists; it is false when every path is longer or
\* there is none.
C28_ReachabilityExact ==
  \A target_id, pivot_id \in 0..MaxWide, k \in 0..MaxHops :
    is_reachable_within_k_hops(nodes, target_id, pivot_id, k)
      <=> (target_id = pivot_id \/ target_id \in WithinHops(pivot_id, k))

\* An index on which some target is out of reach of a pivot within k >= 1
\* hops and within reach with one hop more.
C28_Witness ==
  \E target_id, pivot_id \in DOMAIN nodes, k \in 1..(MaxHops - 1) :
    /\ ~is_reachable_within_k_hops(nodes, target_id, pivot_id, k)
    /\ is_reachable_within_k_hops(nodes, target_id, pivot_id, k + 1)

\* What C29 says of one walk: no node's distance is evaluated twice, and
\* the main loop runs at most once per evaluated node.
WalkBounded(walk) ==
  /\ walk.evals = Cardinality({c.id : c \in walk.evaluated})
  /\ walk.evals <= Cardinality(DOMAIN nodes)
  /\ walk.pops <= walk.evals

\* C29: beam_search and beam_search_with_buffer terminate on every graph,
\* also with cycles, self-loops and neighbor ids that no longer exist, and
\* evaluate the distance to each node at most once per call.
C29_WalkTerminates ==
  \A query \in Vectors, k \in 1..MaxK, beam_width \in 1..MaxBeam,
     order \in SearchOrders(Index) :
    /\ WalkBounded(search_with_beam(config, Index, query, k, beam_width, order))
    /\ WalkBounded(search_with_buffer(config, Index, query, k, beam_width,
                                      order, DirtyBuffer))

\* A walk that evaluates three nodes on a graph with a self-loop, a neighbor
\* id that no longer exists and an edge back to the start node.
C29_Witness ==
  /\ \E n \in DOMAIN nodes : n \in Range(Neighbors(n))
  /\ \E n \in DOMAIN nodes : ~(Range(Neighbors(n)) \subseteq DOMAIN nodes)
  /\ \E query \in Vectors, k \in 1..MaxK, beam_width \in 1..MaxBeam,
        order \in SearchOrders(Index) :
       /\ search_with_beam(config, Index, query, k, beam_width, order).evals >= 3
       /\ \E n \in DOMAIN nodes \ {SearchStart(Index, order)} :
            SearchStart(Index, order) \in Range(Neighbors(n))

\* The entries of a neighbor list other than id, in their order.
Survivors(list, id) == LET Other(x) == x # id IN SelectSeq(list, Other)

\* Whether the entries of a occur in b in the same relative order.
RECURSIVE IsSubsequence(_, _)
IsSubsequence(a, b) ==
  IF a = <<>> THEN TRUE
  ELSE IF b = <<>> THEN FALSE
  ELSE IF Head(a) = Head(b) THEN IsSubsequence(Tail(a), Tail(b))
  ELSE IsSubsequence(a, Tail(b))

\* C30: remove(id) never deletes an edge between two surviving nodes: every
\* neighbor other than id that a remaining node had before the call is still
\* in its list afterwards, in the same relative order.
C30_RemoveKeepsSurvivingEdges ==
  \A id \in 0..MaxWide :
    \A next \in remove_node(config, Index, id) :
      \A n \in DOMAIN next.nodes :
        IsSubsequence(Survivors(Neighbors(n), id), next.nodes[n].neighbors)

\* A remove that strips the removed id from a list holding another id behind
\* it and appends a new connection in the repair.
C30_Witness ==
  \E id \in DOMAIN nodes :
    \E next \in remove_node(config, Index, id) :
      \E n \in DOMAIN next.nodes :
        /\ Len(Neighbors(n)) = 2
        /\ Neighbors(n)[1] = id
        /\ Neighbors(n)[2] # id
        /\ Len(next.nodes[n].neighbors) = 2
        /\ id \notin Range(next.nodes[n].neighbors)

====
